---- MODULE Spec2Model ----
(***************************************************************************)
(* Shipment trip registry and package load ledger of the warehouse         *)
(* management application (app/shipment.py, app/ui/pages/loader_page.py),  *)
(* its backorder and shipment line ledgers (app/backorder.py) and the pick *)
(* queue as the scanner pages use it (app/ui/pages/scanner_page.py).       *)
(*                                                                         *)
(* Every SQL statement is one atomic step: the connections are opened with *)
(* autocommit=True, so a function that issues several statements can be    *)
(* interleaved with the statements of other stations between any two of    *)
(* them.                                                                   *)
(***************************************************************************)
EXTENDS Integers, Sequences, FiniteSets, Bags, TLC

\* ------------------------------------------------------------------ bounds
\* Largest pkgs_total an upsert_header call passes.
MaxTotal == 2
\* Number of top-level calls (handlers) started in one run; also the clock.
MaxOps == 4

\* The stations (separate processes sharing the one database).
Stations == {"s1", "s2"}
\* The (trip_date, order_no) pairs of the headers.
TripKeys == {<<1, "SO1">>, <<2, "SO1">>}
\* Invoice roots passed to upsert_header.
InvoiceRoots == {"CAN100"}
\* Invoice roots of the barcodes scanned: those of the headers and a foreign one.
ScanRoots == InvoiceRoots \cup {"ARV200"}
\* Customer codes passed to upsert_header.
Customers == {"C1"}
\* Package numbers a caller may pass: in range and just outside of it.
PkgNos == 0 .. (MaxTotal + 1)
\* SQL NULL of a character column.
NULL == "NULL"
\* The order the scanner pages pick: ORDERNO and its id in the ERP.
OrderNos == {"SO1"}
OrderIds == {5}
\* Item codes of the order's lines, in the order fetch_order_lines lists them.
ItemList == <<"A", "B">>
Items == {"A", "B"}
\* Ordered quantity of every line of the order.
MaxQty == 3
\* Quantities a caller passes to insert_backorder and add_shipment.
Qtys == {-1, 2, 3}
\* invoiced_qty values passed to add_shipment.
InvoicedQtys == {2, 3}
\* Unit multipliers of the barcodes.
Multipliers == {1, 2, 3}
\* Keys of the two ledgers.
LedgerKeys == OrderNos \X Items

\* -------------------------------------------------------------- the state
VARIABLES
    shipment_header,   \* sequence of header rows; the index is the IDENTITY id
    shipment_loaded,   \* set of package rows, UNIQUE(trip_id, pkg_no)
    user_activity,     \* bag of USER_ACTIVITY rows (the audit log)
    clock,             \* GETDATE(): number of calls started so far
    st,                \* per station: position and locals of the running call
    id_map,            \* per station: the loader page's last refreshed rows
    rets,              \* per (trip_id, pkg_no): results of finished mark_loaded calls
    upsert_arg,        \* per trip id: pkgs_total passed by the latest upsert_header
    backorders,        \* sequence of backorders rows; the index is the IDENTITY id
    shipment_lines,    \* sequence of shipment_lines rows; the index is the id
    bk,                \* per station: position and locals of insert_backorder
    WMS_PICKQUEUE,     \* set of pick queue rows, one per (order_id, item_code)
    order_status,      \* STATUS of the order in the ERP: 2 picking, 4 completed
    scn,               \* per station: the scanner page's fields and position
    bo_args,           \* per (order_no, item_code): number n and sum of qty_missing of the finished insert_backorder calls
    ship_args,         \* per (order_no, item_code): number n of add_shipment calls, sum of qty_delta, invoiced_qty of the first
    inc_sum,           \* per item_code: sum of the queue_inc deltas since the last queue_delete
    deleted,           \* queue_delete has run for the order
    users,             \* UserManager.users: username -> the User's fields
    current_user,      \* SessionManager.current_user: a username, NULL for None
    auth_ret           \* how the latest UserManager / SessionManager call ended

\* The trip registry and the loader pages.
trip_vars == <<shipment_header, shipment_loaded, user_activity, st, id_map, rets,
               upsert_arg>>
\* The backorder and shipment line ledgers.
ledger_vars == <<backorders, shipment_lines, bk, bo_args, ship_args>>
\* The pick queue and the scanner pages.
scanner_vars == <<WMS_PICKQUEUE, order_status, scn, inc_sum, deleted>>
\* The user file and the session.
auth_vars == <<users, current_user, auth_ret>>

vars == <<shipment_header, shipment_loaded, user_activity, clock, st, id_map, rets,
          upsert_arg, backorders, shipment_lines, bk, WMS_PICKQUEUE, order_status,
          scn, bo_args, ship_args, inc_sum, deleted, users, current_user, auth_ret>>

TripIds == 1 .. Cardinality(TripKeys)

\* Results of mark_loaded: return 1, return 0, and the exception the INSERT
\* raises on a UNIQUE(trip_id, pkg_no) violation.
Loaded == "Loaded"
Duplicate == "Duplicate"
IntegrityError == "IntegrityError"

\* ------------------------------------------------------------ the tables
\* Row inserted by the WHEN NOT MATCHED branch; the other columns take their
\* DEFAULTs (pkgs_loaded 0, closed 0) or stay NULL (loaded_at, en_route).
upsert_insert(key, pkgs_total, customer_code, invoice_root) ==
    [ trip_key      |-> key,
      customer_code |-> customer_code,
      pkgs_total    |-> pkgs_total,
      pkgs_loaded   |-> 0,
      closed        |-> 0,
      en_route      |-> 0,
      loaded_at     |-> 0,
      invoice_root  |-> invoice_root ]

\* Mutation: the re-upsert also resets the loaded counter.
upsert_matched_resets_loaded(row, pkgs_total, invoice_root) ==
    [ row EXCEPT !.pkgs_total  = IF pkgs_total > @ THEN pkgs_total ELSE @,
                 !.pkgs_loaded = 0,
                 !.closed      = 0,
                 !.invoice_root = IF @ = NULL THEN invoice_root ELSE @ ]

\* Mutation: the re-upsert overwrites the total.
upsert_matched_overwrites_total(row, pkgs_total, invoice_root) ==
    [ row EXCEPT !.pkgs_total  = pkgs_total,
                 !.closed      = 0,
                 !.invoice_root = IF @ = NULL THEN invoice_root ELSE @ ]

\* Mutation: the re-upsert reopens only when the total grows.
upsert_matched_keeps_closed(row, pkgs_total, invoice_root) ==
    [ row EXCEPT !.closed      = IF pkgs_total > row.pkgs_total THEN 0 ELSE @,
                 !.pkgs_total  = IF pkgs_total > @ THEN pkgs_total ELSE @,
                 !.invoice_root = IF @ = NULL THEN invoice_root ELSE @ ]

\* Mutation: the MATCHED branch stores the passed invoice root.
upsert_matched_overwrites_root(row, pkgs_total, invoice_root) ==
    [ row EXCEPT !.pkgs_total   = IF pkgs_total > @ THEN pkgs_total ELSE @,
                 !.closed       = 0,
                 !.invoice_root = invoice_root ]

\* Row as updated by the WHEN MATCHED branch.
upsert_matched(row, pkgs_total, invoice_root) ==
    [ row EXCEPT !.pkgs_total  = IF pkgs_total > @ THEN pkgs_total ELSE @,
                 !.closed      = 0,
                 !.invoice_root = IF @ = NULL THEN invoice_root ELSE @ ]

\* Ids of the header rows of a (trip_date, order_no).
HeaderIds(hdr, key) == { i \in DOMAIN hdr : hdr[i].trip_key = key }

\* The MERGE statement of upsert_header.
upsert_header(hdr, key, pkgs_total, customer_code, invoice_root) ==
    IF HeaderIds(hdr, key) # {}
    THEN [ i \in DOMAIN hdr |->
             IF hdr[i].trip_key = key
             THEN upsert_matched(hdr[i], pkgs_total, invoice_root)
             ELSE hdr[i] ]
    ELSE Append(hdr, upsert_insert(key, pkgs_total, customer_code, invoice_root))

\* Package numbers of a trip whose row has loaded = 1.
LoadedPkgs(rows, trip_id) ==
    { r.pkg_no : r \in { x \in rows : x.trip_id = trip_id /\ x.loaded = 1 } }

\* Trigger trg_loaded_aiu on shipment_loaded: keeps the header's pkgs_loaded
\* equal to the number of loaded packages of the trip.
trg_loaded_aiu(hdr, rows, trip_id) ==
    [ hdr EXCEPT ![trip_id].pkgs_loaded = Cardinality(LoadedPkgs(rows, trip_id)) ]

\* The UPDATE statement of set_trip_closed.
set_trip_closed_update(hdr, trip_id, closed, now) ==
    [ hdr EXCEPT ![trip_id].closed    = closed,
                 ![trip_id].en_route  = closed,
                 ![trip_id].loaded_at = IF closed = 1 THEN now ELSE @ ]

\* Mutation: the action name does not depend on the counters.
set_trip_closed_audit_always_auto(trip_id, pkgs_loaded, pkgs_total) ==
    [ action  |-> "TRIP_AUTO_CLOSED",
      trip_id |-> trip_id,
      details |-> <<pkgs_loaded, pkgs_total>> ]

\* The USER_ACTIVITY row set_trip_closed inserts when closed is true.
set_trip_closed_audit(trip_id, pkgs_loaded, pkgs_total) ==
    [ action  |-> IF pkgs_loaded = pkgs_total
                  THEN "TRIP_AUTO_CLOSED"
                  ELSE "TRIP_MANUAL_CLOSED_INCOMPLETE",
      trip_id |-> trip_id,
      details |-> <<pkgs_loaded, pkgs_total>> ]

\* The USER_ACTIVITY row mark_loaded inserts after an automatic close.
mark_loaded_audit(trip_id, pkg_no, pkgs_loaded, pkgs_total) ==
    [ action  |-> IF pkgs_loaded = pkg_no /\ pkg_no = pkgs_total
                  THEN "TRIP_AUTO_CLOSED"
                  ELSE "TRIP_COMPLETED_LATE",
      trip_id |-> trip_id,
      details |-> <<pkgs_loaded, pkgs_total>> ]


\* ------------------------------------------------ users and the session
\* Names typed into the login dialog; "" is the blank name.
Usernames == {"admin", "operator", "nonexistent"}
AuthNames == Usernames \cup {""}

\* A User as add_user and _create_default_users build it: is_active True,
\* last_login None (0; 1 once it is set). The fields no statement of
\* authenticate or login reads are left out.
new_user == [ is_active |-> TRUE, last_login |-> 0 ]

\* _create_default_users: the users of a new users file.
default_users == [ u \in {"admin", "operator"} |-> new_user ]

\* How a call ended: it returned a value or raised an exception.
returns(op, username, value) ==
    [ op |-> op, username |-> username, outcome |-> "return", value |-> value ]
raises(op, username, exc) ==
    [ op |-> op, username |-> username, outcome |-> "raise", value |-> exc ]
NoCall == returns("none", "", "None")

\* ---------------------------------------------------------- the stations
\* Locals of a station with no call running.
Fresh ==
    [ pc          |-> "idle",
      trip_id     |-> 0,        \* trip_id argument / resolved trip
      pkg_no      |-> 0,        \* pkg_no argument
      closed      |-> 0,        \* closed argument of set_trip_closed
      row         |-> {},       \* mark_loaded: fetchone() of the loaded flag
      pkgs_loaded |-> 0,        \* mark_loaded: counters read in step 4
      pkgs_total  |-> 0,
      ml_caller   |-> "none",   \* who called mark_loaded
      stc_caller  |-> "none",   \* who called set_trip_closed
      ret         |-> "none",   \* mark_loaded's return value, back in on_scan
      signal      |-> "none",   \* on_scan: the sound played (ok, dupe, err)
      warning     |-> "none",   \* on_scan: the QMessageBox.warning shown
      logged      |-> <<>> ]    \* USER_ACTIVITY rows the running call inserted

\* A station that runs no insert_backorder.
BkIdle == [ pc |-> "idle", order_no |-> NULL, item_code |-> NULL, qty_missing |-> 0,
            row |-> <<>> ]

\* A scanner page with no order selected (_order_selected with "-- ...").
ScnIdle == [ pc |-> "idle", combo |-> {}, current_order |-> NULL, current_order_id |-> 0,
             order_lines |-> <<>>, idx |-> 0, signal |-> "none" ]

Init ==
    /\ shipment_header = <<>>
    /\ shipment_loaded = {}
    /\ user_activity = EmptyBag
    /\ clock = 0
    /\ st = [ s \in Stations |-> Fresh ]
    /\ id_map = [ s \in Stations |-> {} ]
    /\ rets = [ k \in TripIds \X PkgNos |-> <<>> ]
    /\ upsert_arg = <<>>
    /\ backorders = <<>>
    /\ shipment_lines = <<>>
    /\ bk = [ s \in Stations |-> BkIdle ]
    /\ WMS_PICKQUEUE = {}
    /\ order_status = 2
    /\ scn = [ s \in Stations |-> [ ScnIdle EXCEPT !.combo = OrderIds ] ]
    /\ bo_args = [ k \in LedgerKeys |-> [ n |-> 0, sum |-> 0 ] ]
    /\ ship_args = [ k \in LedgerKeys |-> [ n |-> 0, sum |-> 0, first |-> 0 ] ]
    /\ inc_sum = [ i \in Items |-> 0 ]
    /\ deleted = FALSE
    /\ users = default_users
    /\ current_user = NULL
    /\ auth_ret = NoCall

\* A station may start a call: it runs none, and the run's budget is not used up.
CanStart(s) == st[s].pc = "idle" /\ clock < MaxOps

\* No station is inside a call.
Quiescent == \A s \in Stations : st[s].pc = "idle"

\* INSERT INTO USER_ACTIVITY.
log_activity(log, entry) == log (+) SetToBag({entry})

\* upsert_header(order_no, trip_date, pkgs_total, customer_code=, invoice_root=):
\* one MERGE statement.
UpsertHeader(s, key, pkgs_total, customer_code, invoice_root) ==
    /\ CanStart(s)
    /\ shipment_header' =
         upsert_header(shipment_header, key, pkgs_total, customer_code, invoice_root)
    /\ upsert_arg' = [ i \in DOMAIN shipment_header' |->
                         IF shipment_header'[i].trip_key = key THEN pkgs_total
                         ELSE upsert_arg[i] ]
    /\ clock' = clock + 1
    /\ UNCHANGED <<shipment_loaded, user_activity, st, id_map, rets>>

\* mark_loaded is left with result r (a return value or a raised exception):
\* back in on_scan when on_scan called it (an exception leaves on_scan too).
ml_return(loc, r) ==
    IF loc.ml_caller = "on_scan" /\ r # IntegrityError
    THEN [ loc EXCEPT !.pc = "scan_done", !.ret = r ]
    ELSE Fresh

\* Mutation: the flag test is inverted.
ml_already_loaded_inverted(row) == row # {} /\ row = {0}

\* mark_loaded 1): "if row and row[0] == 1".
ml_already_loaded(row) == row # {} /\ row = {1}

\* mark_loaded 1): SELECT loaded ...; a loaded row: return 0.
ml_select_by(s, loc) ==
    /\ LET found == { r \in shipment_loaded :
                        r.trip_id = loc.trip_id /\ r.pkg_no = loc.pkg_no }
           row   == { r.loaded : r \in found }
       IN IF ml_already_loaded(row)
          THEN /\ st' = [ st EXCEPT ![s] = ml_return(loc, Duplicate) ]
               /\ rets' = [ rets EXCEPT ![<<loc.trip_id, loc.pkg_no>>] =
                              Append(@, Duplicate) ]
          ELSE /\ st' = [ st EXCEPT ![s] = [ loc EXCEPT !.pc = "ml_write", !.row = row ] ]
               /\ UNCHANGED rets
    /\ UNCHANGED <<shipment_header, shipment_loaded, user_activity, id_map, upsert_arg>>

\* A caller invokes mark_loaded(trip_id, pkg_no) directly: up to the SELECT.
Call_mark_loaded(s, trip_id, pkg_no) ==
    /\ CanStart(s)
    /\ trip_id \in DOMAIN shipment_header
    /\ clock' = clock + 1
    /\ ml_select_by(s, [ Fresh EXCEPT !.trip_id = trip_id, !.pkg_no = pkg_no,
                                      !.ml_caller = "api" ])

\* mark_loaded called by on_scan: the SELECT.
ml_select(s) ==
    /\ st[s].pc = "ml_select"
    /\ ml_select_by(s, st[s])
    /\ UNCHANGED clock

\* The package row mark_loaded writes (loaded_by and loaded_time, which no
\* statement reads, are left out).
loaded_row(trip_id, pkg_no) ==
    [ trip_id |-> trip_id, pkg_no |-> pkg_no, loaded |-> 1 ]

\* mark_loaded 2): UPDATE of the row read with loaded = 0, else INSERT, which
\* the UNIQUE(trip_id, pkg_no) constraint rejects when the row exists by now.
\* The trigger runs inside the statement.
ml_write(s) ==
    /\ st[s].pc = "ml_write"
    /\ LET t     == st[s].trip_id
           p     == st[s].pkg_no
           found == { r \in shipment_loaded : r.trip_id = t /\ r.pkg_no = p }
           new   == loaded_row(t, p)
       IN IF st[s].row # {}
          THEN /\ shipment_loaded' =
                    IF found = {} THEN shipment_loaded
                    ELSE (shipment_loaded \ found) \cup {new}
               /\ shipment_header' = trg_loaded_aiu(shipment_header, shipment_loaded', t)
               /\ st' = [ st EXCEPT ![s].pc = "ml_count" ]
               /\ UNCHANGED rets
          ELSE IF found # {}
          THEN /\ st' = [ st EXCEPT ![s] = ml_return(@, IntegrityError) ]
               /\ rets' = [ rets EXCEPT ![<<t, p>>] = Append(@, IntegrityError) ]
               /\ UNCHANGED <<shipment_header, shipment_loaded>>
          ELSE /\ shipment_loaded' = shipment_loaded \cup {new}
               /\ shipment_header' = trg_loaded_aiu(shipment_header, shipment_loaded', t)
               /\ st' = [ st EXCEPT ![s].pc = "ml_count" ]
               /\ UNCHANGED rets
    /\ UNCHANGED <<user_activity, clock, id_map, upsert_arg>>

\* Mutation: the automatic close fires one package early.
ml_complete_one_early(pkgs_loaded, pkgs_total) == pkgs_loaded + 1 >= pkgs_total

\* mark_loaded 4): "if pkgs_loaded == pkgs_total".
ml_complete(pkgs_loaded, pkgs_total) == pkgs_loaded = pkgs_total

\* mark_loaded 4): SELECT pkgs_loaded, pkgs_total; all loaded -> set_trip_closed.
ml_count(s) ==
    /\ st[s].pc = "ml_count"
    /\ LET h == shipment_header[st[s].trip_id]
       IN IF ml_complete(h.pkgs_loaded, h.pkgs_total)
          THEN /\ st' = [ st EXCEPT ![s].pc = "stc_update",
                                    ![s].pkgs_loaded = h.pkgs_loaded,
                                    ![s].pkgs_total = h.pkgs_total,
                                    ![s].closed = 1,
                                    ![s].stc_caller = "mark_loaded" ]
               /\ UNCHANGED rets
          ELSE /\ st' = [ st EXCEPT ![s] = ml_return(@, Loaded) ]
               /\ rets' = [ rets EXCEPT ![<<st[s].trip_id, st[s].pkg_no>>] =
                              Append(@, Loaded) ]
    /\ UNCHANGED <<shipment_header, shipment_loaded, user_activity, clock, id_map,
                   upsert_arg>>

\* set_trip_closed: the UPDATE.
stc_update_by(s, loc) ==
    /\ shipment_header' =
         set_trip_closed_update(shipment_header, loc.trip_id, loc.closed, clock')
    /\ st' = [ st EXCEPT ![s] = [ loc EXCEPT !.pc = "stc_select" ] ]
    /\ UNCHANGED <<shipment_loaded, user_activity, id_map, rets, upsert_arg>>

\* A caller invokes set_trip_closed(trip_id, closed) directly: up to the UPDATE.
Call_set_trip_closed(s, trip_id, closed) ==
    /\ CanStart(s)
    /\ trip_id \in DOMAIN shipment_header
    /\ clock' = clock + 1
    /\ stc_update_by(s, [ Fresh EXCEPT !.trip_id = trip_id, !.closed = closed,
                                       !.stc_caller = "api" ])

\* set_trip_closed called by mark_loaded or close_trip: the UPDATE.
stc_update(s) ==
    /\ st[s].pc = "stc_update"
    /\ UNCHANGED clock
    /\ stc_update_by(s, st[s])

\* set_trip_closed is left: back in mark_loaded or close_trip when they called it.
stc_return(loc) ==
    CASE loc.stc_caller = "mark_loaded" -> [ loc EXCEPT !.pc = "ml_log" ]
      [] loc.stc_caller = "close_trip"  -> [ loc EXCEPT !.pc = "ct_refresh" ]
      [] OTHER                          -> Fresh

\* set_trip_closed: SELECT pkgs_loaded, pkgs_total and, "if closed", the
\* USER_ACTIVITY row built from them.
stc_select(s) ==
    /\ st[s].pc = "stc_select"
    /\ LET h == shipment_header[st[s].trip_id]
           e == set_trip_closed_audit(st[s].trip_id, h.pkgs_loaded, h.pkgs_total)
       IN IF st[s].closed = 1
          THEN /\ user_activity' = log_activity(user_activity, e)
               /\ st' = [ st EXCEPT ![s] =
                            stc_return([ @ EXCEPT !.logged = Append(@, e) ]) ]
          ELSE /\ UNCHANGED user_activity
               /\ st' = [ st EXCEPT ![s] = stc_return(@) ]
    /\ UNCHANGED <<shipment_header, shipment_loaded, clock, id_map, rets, upsert_arg>>

\* mark_loaded: the USER_ACTIVITY row after the automatic close; return 1.
ml_log(s) ==
    /\ st[s].pc = "ml_log"
    /\ user_activity' =
         log_activity(user_activity,
             mark_loaded_audit(st[s].trip_id, st[s].pkg_no,
                               st[s].pkgs_loaded, st[s].pkgs_total))
    /\ st' = [ st EXCEPT ![s] = ml_return(@, Loaded) ]
    /\ rets' = [ rets EXCEPT ![<<st[s].trip_id, st[s].pkg_no>>] = Append(@, Loaded) ]
    /\ UNCHANGED <<shipment_header, shipment_loaded, clock, id_map, upsert_arg>>

\* ------------------------------------------------------ the loader page
\* Mutation: ORDER BY id DESC.
trip_by_barkod_newest(hdr, inv_root) ==
    LET M == { i \in DOMAIN hdr : /\ hdr[i].invoice_root = inv_root
                                  /\ hdr[i].closed = 0
                                  /\ hdr[i].pkgs_loaded < hdr[i].pkgs_total }
    IN IF M = {} THEN <<>>
       ELSE LET i == CHOOSE x \in M : \A y \in M : y <= x
            IN <<i, hdr[i].pkgs_total>>

\* trip_by_barkod, the rows from id i on: the first one in id order that has
\* the invoice root, is not closed and has packages left.
RECURSIVE trip_by_barkod_from(_, _, _)
trip_by_barkod_from(hdr, inv_root, i) ==
    IF i > Len(hdr) THEN <<>>
    ELSE IF /\ hdr[i].invoice_root = inv_root
            /\ hdr[i].closed = 0
            /\ hdr[i].pkgs_loaded < hdr[i].pkgs_total
         THEN <<i, hdr[i].pkgs_total>>
         ELSE trip_by_barkod_from(hdr, inv_root, i + 1)

\* trip_by_barkod(inv_root), no day filter: (id, pkgs_total), or <<>> for None.
trip_by_barkod(hdr, inv_root) == trip_by_barkod_from(hdr, inv_root, 1)

\* Mutation: the range check lets the package after the last one through.
on_scan_in_range_off_by_one(pkg_no, pkg_tot) == 1 <= pkg_no /\ pkg_no <= pkg_tot + 1

\* on_scan: "1 <= pkg_no <= pkg_tot".
on_scan_in_range(pkg_no, pkg_tot) == 1 <= pkg_no /\ pkg_no <= pkg_tot

\* refresh(): list_headers_range filtered to the trips with a loaded package.
refresh(hdr) ==
    { [ id |-> i, pkgs_loaded |-> hdr[i].pkgs_loaded, pkgs_total |-> hdr[i].pkgs_total ]
      : i \in { x \in DOMAIN hdr : hdr[x].pkgs_loaded > 0 } }

\* on_scan of the barcode inv_root-K<pkg_no>: resolve the trip, check the range.
OnScan(s, inv_root, pkg_no) ==
    /\ CanStart(s)
    /\ clock' = clock + 1
    /\ LET trip == trip_by_barkod(shipment_header, inv_root)
       IN st' = [ st EXCEPT ![s] =
                    IF trip = <<>>
                    THEN [ Fresh EXCEPT !.signal = "err", !.warning = "NotFound" ]
                    ELSE IF ~ on_scan_in_range(pkg_no, trip[2])
                    THEN [ Fresh EXCEPT !.signal = "err", !.warning = "CapacityExceeded" ]
                    ELSE [ Fresh EXCEPT !.pc = "ml_select", !.trip_id = trip[1],
                                        !.pkg_no = pkg_no, !.ml_caller = "on_scan" ] ]
    /\ UNCHANGED <<shipment_header, shipment_loaded, user_activity, id_map, rets,
                   upsert_arg>>

\* on_scan after mark_loaded returned: 0 -> the duplicate sound; 1 -> the
\* success sound and refresh().
OnScanDone(s) ==
    /\ st[s].pc = "scan_done"
    /\ IF st[s].ret = Duplicate
       THEN /\ st' = [ st EXCEPT ![s] = [ Fresh EXCEPT !.signal = "dupe" ] ]
            /\ UNCHANGED id_map
       ELSE /\ st' = [ st EXCEPT ![s] = [ Fresh EXCEPT !.signal = "ok" ] ]
            /\ id_map' = [ id_map EXCEPT ![s] = refresh(shipment_header) ]
    /\ UNCHANGED <<shipment_header, shipment_loaded, user_activity, clock, rets,
                   upsert_arg>>

\* refresh() by the page's timer or its button.
Refresh(s) ==
    /\ st[s].pc = "idle"
    /\ id_map' = [ id_map EXCEPT ![s] = refresh(shipment_header) ]
    /\ id_map' # id_map
    /\ UNCHANGED <<shipment_header, shipment_loaded, user_activity, clock, st, rets,
                   upsert_arg>>

\* The USER_ACTIVITY row close_trip inserts for a trip its table shows incomplete.
close_trip_audit(rec) ==
    [ action  |-> "TRIP_MANUAL_CLOSED_INCOMPLETE",
      trip_id |-> rec.id,
      details |-> <<rec.pkgs_loaded, rec.pkgs_total>> ]

\* close_trip with the row rec of the page's table selected; ans is the
\* operator's answer to the "Eksik Koli" question. Up to its first statement.
CloseTrip(s, rec, ans) ==
    /\ CanStart(s)
    /\ rec \in id_map[s]
    /\ clock' = clock + 1
    /\ IF rec.pkgs_loaded < rec.pkgs_total
       THEN IF ans = "No"
            THEN /\ id_map' = [ id_map EXCEPT ![s] = refresh(shipment_header) ]
                 /\ UNCHANGED <<shipment_header, shipment_loaded, user_activity, st,
                                rets, upsert_arg>>
            ELSE /\ user_activity' = log_activity(user_activity, close_trip_audit(rec))
                 /\ st' = [ st EXCEPT ![s] =
                              [ Fresh EXCEPT !.pc = "stc_update", !.trip_id = rec.id,
                                             !.closed = 1, !.stc_caller = "close_trip",
                                             !.logged = <<close_trip_audit(rec)>> ] ]
                 /\ UNCHANGED <<shipment_header, shipment_loaded, id_map, rets,
                                upsert_arg>>
       ELSE /\ ans = "Yes"
            /\ stc_update_by(s, [ Fresh EXCEPT !.trip_id = rec.id, !.closed = 1,
                                               !.stc_caller = "close_trip" ])

\* close_trip: the refresh() after set_trip_closed.
ct_refresh(s) ==
    /\ st[s].pc = "ct_refresh"
    /\ id_map' = [ id_map EXCEPT ![s] = refresh(shipment_header) ]
    /\ st' = [ st EXCEPT ![s] = Fresh ]
    /\ UNCHANGED <<shipment_header, shipment_loaded, user_activity, clock, rets,
                   upsert_arg>>

\* Rows a loader page's table can hold.
ViewRecs == [ id : TripIds, pkgs_loaded : 0 .. (MaxTotal + 1), pkgs_total : 1 .. MaxTotal ]

\* Arguments of upsert_header.
UpsertArgs == TripKeys \X (1 .. MaxTotal) \X Customers \X InvoiceRoots

DoUpsertHeader ==
    /\ \E s \in Stations : \E a \in UpsertArgs : UpsertHeader(s, a[1], a[2], a[3], a[4])
    /\ UNCHANGED <<ledger_vars, scanner_vars, auth_vars>>
DoCallMarkLoaded ==
    /\ \E s \in Stations : \E t \in TripIds : \E p \in PkgNos : Call_mark_loaded(s, t, p)
    /\ UNCHANGED <<ledger_vars, scanner_vars, auth_vars>>
DoCallSetTripClosed ==
    /\ \E s \in Stations : \E t \in TripIds : \E c \in {0, 1} : Call_set_trip_closed(s, t, c)
    /\ UNCHANGED <<ledger_vars, scanner_vars, auth_vars>>
DoMlSelect ==
    /\ \E s \in Stations : ml_select(s)
    /\ UNCHANGED <<ledger_vars, scanner_vars, auth_vars>>
DoMlWrite ==
    /\ \E s \in Stations : ml_write(s)
    /\ UNCHANGED <<ledger_vars, scanner_vars, auth_vars>>
DoMlCount ==
    /\ \E s \in Stations : ml_count(s)
    /\ UNCHANGED <<ledger_vars, scanner_vars, auth_vars>>
DoStcUpdate ==
    /\ \E s \in Stations : stc_update(s)
    /\ UNCHANGED <<ledger_vars, scanner_vars, auth_vars>>
DoStcSelect ==
    /\ \E s \in Stations : stc_select(s)
    /\ UNCHANGED <<ledger_vars, scanner_vars, auth_vars>>
DoMlLog ==
    /\ \E s \in Stations : ml_log(s)
    /\ UNCHANGED <<ledger_vars, scanner_vars, auth_vars>>
DoOnScan ==
    /\ \E s \in Stations : \E r \in ScanRoots : \E p \in PkgNos : OnScan(s, r, p)
    /\ UNCHANGED <<ledger_vars, scanner_vars, auth_vars>>
DoOnScanDone ==
    /\ \E s \in Stations : OnScanDone(s)
    /\ UNCHANGED <<ledger_vars, scanner_vars, auth_vars>>
DoRefresh ==
    /\ \E s \in Stations : Refresh(s)
    /\ UNCHANGED <<ledger_vars, scanner_vars, auth_vars>>
DoCloseTrip ==
    /\ \E s \in Stations : \E rec \in ViewRecs : \E ans \in {"Yes", "No"} : CloseTrip(s, rec, ans)
    /\ UNCHANGED <<ledger_vars, scanner_vars, auth_vars>>
DoCtRefresh ==
    /\ \E s \in Stations : ct_refresh(s)
    /\ UNCHANGED <<ledger_vars, scanner_vars, auth_vars>>

\* Stations calling upsert_header, mark_loaded and set_trip_closed, their
\* statements interleaved.
Next == \/ DoUpsertHeader \/ DoCallMarkLoaded \/ DoCallSetTripClosed
        \/ DoMlWrite \/ DoMlCount \/ DoStcUpdate \/ DoStcSelect \/ DoMlLog

Spec == Init /\ [][Next]_vars

\* The same calls one after another: a call starts when no other is running.
NextSeq == \/ (Quiescent /\ DoUpsertHeader)
           \/ (Quiescent /\ DoCallMarkLoaded)
           \/ (Quiescent /\ DoCallSetTripClosed)
           \/ DoMlWrite \/ DoMlCount \/ DoStcUpdate \/ DoStcSelect \/ DoMlLog

SpecSeq == Init /\ [][NextSeq]_vars

\* The loader pages of the stations (on_scan, close_trip, refresh) with
\* upsert_header calls creating and re-upserting the headers.
NextLoader == \/ DoUpsertHeader \/ DoOnScan \/ DoOnScanDone \/ DoRefresh
              \/ DoCloseTrip \/ DoCtRefresh
              \/ DoMlSelect \/ DoMlWrite \/ DoMlCount
              \/ DoStcUpdate \/ DoStcSelect \/ DoMlLog

SpecLoader == Init /\ [][NextLoader]_vars

\* The loader pages together with direct mark_loaded calls: mark_loaded is a
\* module-level function of app.shipment, callable without on_scan's checks.
NextLoaderApi == \/ DoUpsertHeader \/ DoCallMarkLoaded
                 \/ DoOnScan \/ DoOnScanDone \/ DoRefresh
                 \/ DoCloseTrip \/ DoCtRefresh
                 \/ DoMlSelect \/ DoMlWrite \/ DoMlCount
                 \/ DoStcUpdate \/ DoStcSelect \/ DoMlLog

SpecLoaderApi == Init /\ [][NextLoaderApi]_vars

\* ------------------------------------------- on_scan from the typed text
\* The text of the entry field as its pieces: what precedes "-K", the
\* separator, what follows it.
PkgTxts == { ToString(n) : n \in (-1) .. (MaxTotal + 1) } \cup {"x"}

RawBarcodes ==
    {<<>>} \cup { <<r>> : r \in ScanRoots }
           \cup { <<r, "-K">> : r \in ScanRoots }
           \cup { <<"-K", "1">> }
           \cup { <<r, "-K", t>> : r \in ScanRoots, t \in PkgTxts }

\* on_scan: '"-K" in raw'.
has_K(raw) == \E k \in DOMAIN raw : raw[k] = "-K"

\* on_scan: raw.rsplit("-K", 1), the split at the last "-K".
rsplit_K(raw) ==
    LET k == CHOOSE i \in DOMAIN raw :
                 raw[i] = "-K" /\ \A j \in DOMAIN raw : raw[j] = "-K" => j <= i
    IN <<SubSeq(raw, 1, k - 1), SubSeq(raw, k + 1, Len(raw))>>

\* int(pkg_txt) succeeds: the text is one decimal number (a sign is allowed).
int_ok(pkg_txt) ==
    /\ Len(pkg_txt) = 1
    /\ \E n \in (-1) .. (MaxTotal + 1) : ToString(n) = pkg_txt[1]

\* int(pkg_txt).
int(pkg_txt) == CHOOSE n \in (-1) .. (MaxTotal + 1) : ToString(n) = pkg_txt[1]

\* The text before "-K" as one string ("" when nothing precedes it).
root_of(inv_root) == IF inv_root = <<>> THEN "" ELSE inv_root[1]

\* on_scan rejects the text before it looks for a trip.
on_scan_malformed(raw) ==
    \/ raw = <<>>
    \/ ~ has_K(raw)
    \/ ~ int_ok(rsplit_K(raw)[2])

\* on_scan with the text of the entry field: malformed text gives the error
\* sound and returns; otherwise the handler goes on with the invoice root and
\* the package number.
OnScanRaw(s, raw) ==
    IF on_scan_malformed(raw)
    THEN /\ CanStart(s)
         /\ clock' = clock + 1
         /\ st' = [ st EXCEPT ![s] = [ Fresh EXCEPT !.signal = "err" ] ]
         /\ UNCHANGED <<shipment_header, shipment_loaded, user_activity, id_map, rets,
                        upsert_arg>>
    ELSE OnScan(s, root_of(rsplit_K(raw)[1]), int(rsplit_K(raw)[2]))

DoOnScanRaw ==
    /\ \E s \in Stations : \E raw \in RawBarcodes : OnScanRaw(s, raw)
    /\ UNCHANGED <<ledger_vars, scanner_vars, auth_vars>>

\* The loader pages, the scans starting from the typed text.
NextLoaderRaw == \/ DoUpsertHeader \/ DoOnScanRaw \/ DoOnScanDone \/ DoRefresh
                 \/ DoCloseTrip \/ DoCtRefresh
                 \/ DoMlSelect \/ DoMlWrite \/ DoMlCount
                 \/ DoStcUpdate \/ DoStcSelect \/ DoMlLog

SpecLoaderRaw == Init /\ [][NextLoaderRaw]_vars

\* The loader pages with upsert_header and direct set_trip_closed calls (the
\* close call other pages and jobs issue) from every station.
NextLoaderClose == \/ DoUpsertHeader \/ DoCallSetTripClosed
                   \/ DoOnScan \/ DoOnScanDone \/ DoRefresh
                   \/ DoCloseTrip \/ DoCtRefresh
                   \/ DoMlSelect \/ DoMlWrite \/ DoMlCount
                   \/ DoStcUpdate \/ DoStcSelect \/ DoMlLog

SpecLoaderClose == Init /\ [][NextLoaderClose]_vars

\* upsert_header with every kind of argument: a second customer, a second
\* invoice root and no invoice root (the parameter defaults to None).
AnyCustomers == Customers \cup {"C2"}
AnyRoots == ScanRoots \cup {NULL}
UpsertArgsAny == TripKeys \X (1 .. MaxTotal) \X AnyCustomers \X AnyRoots

DoUpsertHeaderAny ==
    /\ \E s \in Stations : \E a \in UpsertArgsAny :
          UpsertHeader(s, a[1], a[2], a[3], a[4])
    /\ UNCHANGED <<ledger_vars, scanner_vars, auth_vars>>

\* Those upserts while the stations scan packages (on_scan and mark_loaded,
\* statement by statement).
NextUpsert == \/ DoUpsertHeaderAny \/ DoOnScan \/ DoOnScanDone
              \/ DoMlSelect \/ DoMlWrite \/ DoMlCount
              \/ DoStcUpdate \/ DoStcSelect \/ DoMlLog

SpecUpsert == Init /\ [][NextUpsert]_vars

\* ------------------------------------------------- the session (auth.py)
\* UserManager.authenticate, file based: a blank name raises
\* ValidationException, an unknown one InvalidUserException, a deactivated one
\* InactiveUserException; otherwise the user is returned.
authenticate(us, username) ==
    IF username = "" THEN raises("authenticate", username, "ValidationException")
    ELSE IF username \notin DOMAIN us
    THEN raises("authenticate", username, "InvalidUserException")
    ELSE IF ~ us[username].is_active
    THEN raises("authenticate", username, "InactiveUserException")
    ELSE returns("authenticate", username, username)

\* authenticate's write before it returns: user.last_login = now, _save_users().
authenticated(us, username) == [ us EXCEPT ![username].last_login = 1 ]

\* SessionManager.is_authenticated.
is_authenticated == current_user # NULL

\* A caller invokes user_manager.authenticate(username).
Authenticate(username) ==
    /\ auth_ret' = authenticate(users, username)
    /\ users' = IF auth_ret'.outcome = "return"
                THEN authenticated(users, username) ELSE users
    /\ UNCHANGED <<current_user, trip_vars, clock, ledger_vars, scanner_vars>>

\* SessionManager.login: authenticate, then current_user and session_start
\* (set and cleared together with current_user, left out) and return True;
\* AuthenticationException and ValidationException are raised again.
Login(username) ==
    /\ LET r == authenticate(users, username)
       IN IF r.outcome = "return"
          THEN /\ users' = authenticated(users, username)
               /\ current_user' = r.value
               /\ auth_ret' = returns("login", username, "True")
          ELSE /\ auth_ret' = raises("login", username, r.value)
               /\ UNCHANGED <<users, current_user>>
    /\ UNCHANGED <<trip_vars, clock, ledger_vars, scanner_vars>>

\* SessionManager.logout.
Logout ==
    /\ current_user' = NULL
    /\ auth_ret' = returns("logout", "", "None")
    /\ UNCHANGED <<users, trip_vars, clock, ledger_vars, scanner_vars>>

\* UserManager.update_user(username, {'is_active': False}).
deactivate_user(us, username) == [ us EXCEPT ![username].is_active = FALSE ]

\* UserManager.deactivate_user: True when the user exists, else False.
DeactivateUser(username) ==
    /\ IF username \in DOMAIN users
       THEN /\ users' = deactivate_user(users, username)
            /\ auth_ret' = returns("deactivate_user", username, "True")
       ELSE /\ auth_ret' = returns("deactivate_user", username, "False")
            /\ UNCHANGED users
    /\ UNCHANGED <<current_user, trip_vars, clock, ledger_vars, scanner_vars>>

\* UserManager.add_user: self.users[username] = User(...), an active user.
add_user(us, username) ==
    [ u \in DOMAIN us \cup {username} |-> IF u = username THEN new_user ELSE us[u] ]

AddUser(username) ==
    /\ users' = add_user(users, username)
    /\ auth_ret' = returns("add_user", username, username)
    /\ UNCHANGED <<current_user, trip_vars, clock, ledger_vars, scanner_vars>>

DoAuthenticate == \E u \in AuthNames : Authenticate(u)
DoLogin == \E u \in AuthNames : Login(u)
DoDeactivateUser == \E u \in Usernames : DeactivateUser(u)
DoAddUser == \E u \in Usernames : AddUser(u)

\* Calls on one UserManager and one SessionManager, one after another.
NextAuth == DoAuthenticate \/ DoLogin \/ Logout \/ DoDeactivateUser \/ DoAddUser

SpecAuth == Init /\ [][NextAuth]_vars

\* ------------------------------------------------- the ledgers (backorder.py)
\* sql_sel: ids of the open rows of (order_no, item_code).
sql_sel(rows, order_no, item_code) ==
    { i \in DOMAIN rows : /\ rows[i].fulfilled = 0
                          /\ rows[i].order_no = order_no
                          /\ rows[i].item_code = item_code }

\* sql_ins: the new row; fulfilled takes its DEFAULT 0 and fulfilled_at stays
\* NULL (0). line_id, warehouse_id, eta_date and created_at, which no
\* statement reads or writes afterwards, are left out.
sql_ins(order_no, item_code, qty_missing) ==
    [ order_no     |-> order_no,
      item_code    |-> item_code,
      qty_missing  |-> qty_missing,
      fulfilled    |-> 0,
      fulfilled_at |-> 0 ]

\* Mutation: the UPDATE stores the argument instead of adding it.
sql_upd_overwrites(rows, qty_missing, id) ==
    [ i \in DOMAIN rows |->
        IF i = id THEN [ rows[i] EXCEPT !.qty_missing = qty_missing ] ELSE rows[i] ]

\* sql_upd: "SET qty_missing = qty_missing + ? WHERE id=?".
sql_upd(rows, qty_missing, id) ==
    [ i \in DOMAIN rows |->
        IF i = id THEN [ rows[i] EXCEPT !.qty_missing = @ + qty_missing ] ELSE rows[i] ]

\* A station may start a ledger call.
LedgerCanStart(s) == bk[s].pc = "idle" /\ clock < MaxOps

\* No station is inside insert_backorder.
LedgerQuiescent == \A s \in Stations : bk[s].pc = "idle"

\* insert_backorder up to its SELECT: fetchone() takes an open row of the key
\* if there is one (the statement has no ORDER BY).
Call_insert_backorder(s, order_no, item_code, qty_missing) ==
    /\ LedgerCanStart(s)
    /\ clock' = clock + 1
    /\ LET found == sql_sel(backorders, order_no, item_code)
           rows  == IF found = {} THEN { <<>> }
                    ELSE { <<i, backorders[i].qty_missing>> : i \in found }
       IN \E row \in rows :
            bk' = [ bk EXCEPT ![s] = [ pc |-> "ib_write", order_no |-> order_no,
                                       item_code |-> item_code,
                                       qty_missing |-> qty_missing, row |-> row ] ]
    /\ UNCHANGED <<auth_vars, trip_vars, scanner_vars, backorders, shipment_lines, bo_args,
                   ship_args>>

\* insert_backorder: "if row: UPDATE ... else: INSERT ...", and the return.
ib_write(s) ==
    /\ bk[s].pc = "ib_write"
    /\ backorders' =
         IF bk[s].row # <<>>
         THEN sql_upd(backorders, bk[s].qty_missing, bk[s].row[1])
         ELSE Append(backorders,
                     sql_ins(bk[s].order_no, bk[s].item_code, bk[s].qty_missing))
    /\ bo_args' = [ bo_args EXCEPT ![<<bk[s].order_no, bk[s].item_code>>] =
                      [ n |-> @.n + 1, sum |-> @.sum + bk[s].qty_missing ] ]
    /\ bk' = [ bk EXCEPT ![s] = BkIdle ]
    /\ UNCHANGED <<auth_vars, trip_vars, scanner_vars, clock, shipment_lines, ship_args>>

\* mark_fulfilled: "SET fulfilled=1, fulfilled_at=GETDATE() WHERE id=?".
mark_fulfilled(rows, back_id, now) ==
    [ i \in DOMAIN rows |->
        IF i = back_id
        THEN [ rows[i] EXCEPT !.fulfilled = 1, !.fulfilled_at = now ] ELSE rows[i] ]

\* mark_fulfilled(back_id): one UPDATE, of the row with the id.
MarkFulfilled(s, back_id) ==
    /\ LedgerCanStart(s)
    /\ clock' = clock + 1
    /\ backorders' = mark_fulfilled(backorders, back_id, clock')
    /\ UNCHANGED <<auth_vars, trip_vars, scanner_vars, shipment_lines, bk, bo_args, ship_args>>

\* add_shipment, WHEN NOT MATCHED: the inserted row.
add_shipment_insert(order_no, item_code, invoiced_qty, qty_delta, now) ==
    [ invoice_no   |-> order_no,
      item_code    |-> item_code,
      invoiced_qty |-> invoiced_qty,
      qty_shipped  |-> qty_delta,
      last_update  |-> now ]

\* Mutation: the MATCHED branch also stores the call's invoiced_qty.
add_shipment_matched_sets_invoiced(row, invoiced_qty, qty_delta, now) ==
    [ row EXCEPT !.qty_shipped = @ + qty_delta, !.invoiced_qty = invoiced_qty,
                 !.last_update = now ]

\* add_shipment, WHEN MATCHED: "SET qty_shipped = qty_shipped + ?,
\* last_update = GETDATE()"; invoiced_qty is not among the UPDATE's columns.
add_shipment_matched(row, invoiced_qty, qty_delta, now) ==
    [ row EXCEPT !.qty_shipped = @ + qty_delta, !.last_update = now ]

\* add_shipment: the MERGE on (invoice_no, item_code), one statement.
add_shipment(rows, order_no, item_code, invoiced_qty, qty_delta, now) ==
    IF \E i \in DOMAIN rows : rows[i].invoice_no = order_no /\ rows[i].item_code = item_code
    THEN [ i \in DOMAIN rows |->
             IF rows[i].invoice_no = order_no /\ rows[i].item_code = item_code
             THEN add_shipment_matched(rows[i], invoiced_qty, qty_delta, now)
             ELSE rows[i] ]
    ELSE Append(rows, add_shipment_insert(order_no, item_code, invoiced_qty, qty_delta, now))

\* The record of the add_shipment calls of a key, after one more call.
add_shipment_call(c, invoiced_qty, qty_delta) ==
    [ n     |-> c.n + 1,
      sum   |-> c.sum + qty_delta,
      first |-> IF c.n = 0 THEN invoiced_qty ELSE c.first ]

\* add_shipment called by a station.
AddShipment(s, order_no, item_code, invoiced_qty, qty_delta) ==
    /\ LedgerCanStart(s)
    /\ clock' = clock + 1
    /\ shipment_lines' =
         add_shipment(shipment_lines, order_no, item_code, invoiced_qty, qty_delta, clock')
    /\ ship_args' = [ ship_args EXCEPT ![<<order_no, item_code>>] =
                        add_shipment_call(@, invoiced_qty, qty_delta) ]
    /\ UNCHANGED <<auth_vars, trip_vars, scanner_vars, backorders, bk, bo_args>>

DoInsertBackorder ==
    \E s \in Stations : \E k \in LedgerKeys : \E q \in Qtys :
        Call_insert_backorder(s, k[1], k[2], q)
DoIbWrite == \E s \in Stations : ib_write(s)
DoMarkFulfilled ==
    \E s \in Stations : \E id \in DOMAIN backorders : MarkFulfilled(s, id)
DoAddShipment ==
    \E s \in Stations : \E k \in LedgerKeys : \E iq \in InvoicedQtys : \E q \in Qtys :
        AddShipment(s, k[1], k[2], iq, q)

\* Stations calling insert_backorder, mark_fulfilled and add_shipment, their
\* statements interleaved.
NextLedger == DoInsertBackorder \/ DoIbWrite \/ DoMarkFulfilled \/ DoAddShipment

SpecLedger == Init /\ [][NextLedger]_vars

\* The same calls one after another.
NextLedgerSeq == \/ (LedgerQuiescent /\ DoInsertBackorder)
                 \/ DoIbWrite
                 \/ (LedgerQuiescent /\ DoMarkFulfilled)
                 \/ (LedgerQuiescent /\ DoAddShipment)

SpecLedgerSeq == Init /\ [][NextLedgerSeq]_vars

\* ------------------------------------- the pick queue and the scanner page
\* Mutation: the increment writes back a value read before (lost update).
queue_inc_overwrites(q, order_id, item_code, delta) ==
    { r \in q : ~(r.order_id = order_id /\ r.item_code = item_code) }
        \cup { [ order_id |-> order_id, item_code |-> item_code, qty_sent |-> delta ] }

\* queue_inc (queue.increment): adds delta to the counter of
\* (order_id, item_code) in one atomic statement, creating the row if absent.
queue_inc(q, order_id, item_code, delta) ==
    IF \E r \in q : r.order_id = order_id /\ r.item_code = item_code
    THEN { IF r.order_id = order_id /\ r.item_code = item_code
           THEN [ r EXCEPT !.qty_sent = @ + delta ] ELSE r : r \in q }
    ELSE q \cup { [ order_id |-> order_id, item_code |-> item_code, qty_sent |-> delta ] }

\* queue_fetch (queue.fetch): the rows of the order.
queue_fetch(q, order_id) == { r \in q : r.order_id = order_id }

\* queue_delete (queue.delete): removes the rows of the order.
queue_delete(q, order_id) == { r \in q : r.order_id # order_id }

\* fetch_picking_orders: the orders with STATUS = 2.
fetch_picking_orders(status) == IF status = 2 THEN OrderIds ELSE {}

\* _load_order_lines: the lines of fetch_order_lines, qty_scanned taken from
\* the queue row of the item, 0 without one.
load_order_lines(q, order_id) ==
    [ j \in 1 .. Len(ItemList) |->
        LET rows == { r \in queue_fetch(q, order_id) : r.item_code = ItemList[j] }
        IN [ item_code   |-> ItemList[j],
             qty_ordered |-> MaxQty,
             qty_scanned |-> IF rows = {} THEN 0 ELSE (CHOOSE r \in rows : TRUE).qty_sent ] ]

\* A scanner page may start a handler.
ScnCanStart(s) == scn[s].pc = "idle" /\ clock < MaxOps

\* _load_orders by the 30 s timer or the reload button: the combo box is
\* refilled, which selects "-- ..." and so clears the current order.
LoadOrders(s) ==
    /\ scn[s].pc = "idle"
    /\ scn' = [ scn EXCEPT ![s] =
                  [ ScnIdle EXCEPT !.combo = fetch_picking_orders(order_status) ] ]
    /\ scn' # scn
    /\ UNCHANGED <<auth_vars, trip_vars, ledger_vars, clock, WMS_PICKQUEUE, order_status, inc_sum,
                   deleted>>

\* _order_selected with an order of the combo box, and _load_order_lines.
OrderSelected(s, order_id, order_no) ==
    /\ ScnCanStart(s)
    /\ order_id \in scn[s].combo
    /\ clock' = clock + 1
    /\ scn' = [ scn EXCEPT ![s] =
                  [ @ EXCEPT !.current_order = order_no,
                             !.current_order_id = order_id,
                             !.order_lines = load_order_lines(WMS_PICKQUEUE, order_id),
                             !.signal = "none" ] ]
    /\ UNCHANGED <<auth_vars, trip_vars, ledger_vars, WMS_PICKQUEUE, order_status, inc_sum, deleted>>

\* Index of the order line of an item.
LineOf(item_code) == CHOOSE j \in 1 .. Len(ItemList) : ItemList[j] = item_code

\* _process_barcode: "if scanned >= line['qty_ordered']".
process_barcode_complete(line) == line.qty_scanned >= line.qty_ordered

\* _process_barcode with a barcode of an item of the order: a line that is
\* complete on this page gives the duplicate sound; otherwise queue_inc and
\* the page's own qty_scanned grows by the multiplier.
ProcessBarcode(s, item_code, multiplier) ==
    /\ ScnCanStart(s)
    /\ scn[s].current_order # NULL
    /\ clock' = clock + 1
    /\ LET j == LineOf(item_code)
           line == scn[s].order_lines[j]
       IN IF process_barcode_complete(line)
          THEN /\ scn' = [ scn EXCEPT ![s].signal = "dupe" ]
               /\ UNCHANGED <<WMS_PICKQUEUE, inc_sum>>
          ELSE /\ WMS_PICKQUEUE' =
                    queue_inc(WMS_PICKQUEUE, scn[s].current_order_id, item_code, multiplier)
               /\ inc_sum' = [ inc_sum EXCEPT ![item_code] = @ + multiplier ]
               /\ scn' = [ scn EXCEPT ![s].order_lines[j].qty_scanned = @ + multiplier,
                                      ![s].signal = "ok" ]
    /\ UNCHANGED <<auth_vars, trip_vars, ledger_vars, order_status, deleted>>

\* _complete_order: "line.get('qty_scanned', 0) < line['qty_ordered']".
incomplete_items(lines) ==
    { j \in DOMAIN lines : lines[j].qty_scanned < lines[j].qty_ordered }

\* _complete_order, the loop over the lines: the next line from idx on with
\* "scanned > 0", 0 when there is none.
next_shipment(lines, idx) ==
    LET js == { j \in DOMAIN lines : j >= idx /\ lines[j].qty_scanned > 0 }
    IN IF js = {} THEN 0 ELSE CHOOSE j \in js : \A k \in js : j <= k

\* _complete_order up to its first statement. ans is the operator's answer to
\* "Eksik Urunler" when a line is incomplete: anything but Yes returns;
\* otherwise update_order_status(order_id, 4).
CompleteOrder(s, ans) ==
    /\ ScnCanStart(s)
    /\ scn[s].current_order # NULL
    /\ clock' = clock + 1
    /\ IF incomplete_items(scn[s].order_lines) # {} /\ ans # "Yes"
       THEN UNCHANGED <<scn, order_status>>
       ELSE /\ order_status' = 4
            /\ scn' = [ scn EXCEPT ![s].pc = "co_ship", ![s].idx = 1 ]
    /\ UNCHANGED <<auth_vars, trip_vars, ledger_vars, WMS_PICKQUEUE, inc_sum, deleted>>

\* _complete_order, its next statement: bo.add_shipment for the next scanned
\* line (qty_delta is the page's own qty_scanned), or, after the last one,
\* queue_delete followed by _load_orders(). No statement of the handler
\* writes to backorders.
co_ship(s) ==
    /\ scn[s].pc = "co_ship"
    /\ LET lines == scn[s].order_lines
           j == next_shipment(lines, scn[s].idx)
       IN IF j # 0
          THEN /\ shipment_lines' =
                    add_shipment(shipment_lines, scn[s].current_order, lines[j].item_code,
                                 lines[j].qty_ordered, lines[j].qty_scanned, clock)
               /\ ship_args' =
                    [ ship_args EXCEPT ![<<scn[s].current_order, lines[j].item_code>>] =
                        add_shipment_call(@, lines[j].qty_ordered, lines[j].qty_scanned) ]
               /\ scn' = [ scn EXCEPT ![s].idx = j + 1 ]
               /\ UNCHANGED <<WMS_PICKQUEUE, inc_sum, deleted>>
          ELSE /\ WMS_PICKQUEUE' = queue_delete(WMS_PICKQUEUE, scn[s].current_order_id)
               /\ inc_sum' = [ i \in Items |-> 0 ]
               /\ deleted' = TRUE
               /\ scn' = [ scn EXCEPT ![s] =
                             [ ScnIdle EXCEPT !.combo = fetch_picking_orders(order_status),
                                              !.signal = "completed" ] ]
               /\ UNCHANGED <<shipment_lines, ship_args>>
    /\ UNCHANGED <<auth_vars, trip_vars, clock, backorders, bk, bo_args, order_status>>

DoLoadOrders == \E s \in Stations : LoadOrders(s)
DoOrderSelected ==
    \E s \in Stations : \E o \in OrderIds : \E n \in OrderNos : OrderSelected(s, o, n)
DoProcessBarcode ==
    \E s \in Stations : \E i \in Items : \E m \in Multipliers : ProcessBarcode(s, i, m)
DoCompleteOrder == \E s \in Stations : \E ans \in {"Yes", "No"} : CompleteOrder(s, ans)
DoCoShip == \E s \in Stations : co_ship(s)

\* The scanner pages of the stations.
NextScanner == \/ DoLoadOrders \/ DoOrderSelected \/ DoProcessBarcode
               \/ DoCompleteOrder \/ DoCoShip

SpecScanner == Init /\ [][NextScanner]_vars

\* The pick queue when the pages open: the order has no row yet, or a row of
\* item A with less than the ordered quantity, left by scans of an earlier
\* session of a page.
QueuedBefore == 0 .. (MaxQty - 1)

InitQueued ==
    /\ shipment_header = <<>>
    /\ shipment_loaded = {}
    /\ user_activity = EmptyBag
    /\ clock = 0
    /\ st = [ s \in Stations |-> Fresh ]
    /\ id_map = [ s \in Stations |-> {} ]
    /\ rets = [ k \in TripIds \X PkgNos |-> <<>> ]
    /\ upsert_arg = <<>>
    /\ backorders = <<>>
    /\ shipment_lines = <<>>
    /\ bk = [ s \in Stations |-> BkIdle ]
    /\ \E a \in QueuedBefore :
          /\ WMS_PICKQUEUE = IF a = 0 THEN {} ELSE queue_inc({}, 5, "A", a)
          /\ inc_sum = [ i \in Items |-> IF i = "A" THEN a ELSE 0 ]
    /\ order_status = 2
    /\ scn = [ s \in Stations |-> [ ScnIdle EXCEPT !.combo = OrderIds ] ]
    /\ bo_args = [ k \in LedgerKeys |-> [ n |-> 0, sum |-> 0 ] ]
    /\ ship_args = [ k \in LedgerKeys |-> [ n |-> 0, sum |-> 0, first |-> 0 ] ]
    /\ deleted = FALSE
    /\ users = default_users
    /\ current_user = NULL
    /\ auth_ret = NoCall

\* _process_barcode with the default multiplier 1.
DoProcessBarcodeOne ==
    \E s \in Stations : \E i \in Items : ProcessBarcode(s, i, 1)

\* The scanner pages scanning single pieces; a scan is one step, so no two
\* scans overlap.
NextScannerOne == \/ DoLoadOrders \/ DoOrderSelected \/ DoProcessBarcodeOne
                  \/ DoCompleteOrder \/ DoCoShip

SpecScannerOne == InitQueued /\ [][NextScannerOne]_vars

\* Stations scanning at the loader pages (on_scan: trip_by_barkod, then
\* mark_loaded) while upsert_header calls arrive; nobody closes by hand.
Scanning == \/ DoOnScan \/ DoOnScanDone \/ DoMlSelect \/ DoMlWrite \/ DoMlCount
            \/ DoStcUpdate \/ DoStcSelect \/ DoMlLog

NextScan == DoUpsertHeader \/ Scanning

\* A started handler runs to its end and the stations keep scanning;
\* nothing obliges anybody to call upsert_header again.
SpecScan == Init /\ [][NextScan]_vars /\ WF_vars(Scanning)

\* ------------------------------------------------------------ properties
Min(S) == CHOOSE x \in S : \A y \in S : x <= y
Max2(a, b) == IF a >= b THEN a ELSE b

\* Number of Loaded results among the finished mark_loaded calls of a trip.
LoadedReturns(t) ==
    Cardinality({ c \in PkgNos \X (1 .. MaxOps) :
                    /\ c[2] \in DOMAIN rets[<<t, c[1]>>]
                    /\ rets[<<t, c[1]>>][c[2]] = Loaded })

\* A USER_ACTIVITY row with this action exists for the trip.
HasAudit(t, action) ==
    \E e \in BagToSet(user_activity) : e.trip_id = t /\ e.action = action

\* C1: in every reachable state each trip's pkgs_loaded equals the number of
\* distinct pkg_no whose shipment_loaded row of that trip has loaded = 1.
C1_PkgsLoadedIsCount ==
    \A i \in DOMAIN shipment_header :
        shipment_header[i].pkgs_loaded =
            Cardinality({ p \in PkgNos :
                \E r \in shipment_loaded :
                    r.trip_id = i /\ r.pkg_no = p /\ r.loaded = 1 })

\* C1 witness: a trip with two loaded packages that was closed by the last of
\* them and reopened by a later upsert_header.
C1_Witness ==
    \E i \in DOMAIN shipment_header :
        /\ shipment_header[i].pkgs_loaded = 2
        /\ shipment_header[i].closed = 0
        /\ shipment_header[i].en_route = 1

\* C2: mark_loaded calls made one after another for a (trip, pkg_no) in
\* 1..pkgs_total return Loaded the first time and Duplicate every later time;
\* between calls pkgs_loaded is the number of Loaded results (one per loaded
\* package); a call that returns Duplicate changes no table.
C2_LoadedThenDuplicate ==
    /\ [](\A t \in DOMAIN shipment_header :
            /\ \A p \in 1 .. shipment_header[t].pkgs_total :
                 LET r == rets[<<t, p>>]
                 IN r # <<>> =>
                      /\ r[1] = Loaded
                      /\ \A k \in 2 .. Len(r) : r[k] = Duplicate
            /\ Quiescent => shipment_header[t].pkgs_loaded = LoadedReturns(t))
    /\ [][\A k \in DOMAIN rets :
            (rets'[k] = Append(rets[k], Duplicate)) =>
                UNCHANGED <<shipment_header, shipment_loaded, user_activity>>]_vars

\* C2 witness: three calls for the same package in range have returned.
C2_Witness ==
    \E t \in DOMAIN shipment_header :
        \E p \in 1 .. shipment_header[t].pkgs_total :
            rets[<<t, p>>] = <<Loaded, Duplicate, Duplicate>>

\* C3 (as claimed): of the mark_loaded calls racing on one (trip_id, pkg_no)
\* in range none fails, and at most one returns Loaded.
C3_Claim ==
    \A t \in DOMAIN shipment_header :
        \A p \in 1 .. shipment_header[t].pkgs_total :
            /\ \A k \in DOMAIN rets[<<t, p>>] : rets[<<t, p>>][k] # IntegrityError
            /\ Cardinality({ k \in DOMAIN rets[<<t, p>>] :
                               rets[<<t, p>>][k] = Loaded }) <= 1

\* The loaded packages of a trip are all numbered within 1..pkgs_total.
InRange(hdr, rows, t) == LoadedPkgs(rows, t) \subseteq 1 .. hdr[t].pkgs_total

\* C4: with calls made one after another and only packages 1..pkgs_total of a
\* trip loaded, mark_loaded closes the trip only when all N packages are
\* loaded, and the call that loads the N-th distinct package returns with
\* closed = 1, en_route = 1 and pkgs_loaded = N.
C4_ClosedAfterLastPackage ==
    [][/\ \A s \in Stations :
            ( /\ st[s].pc = "stc_update"
              /\ st[s].stc_caller = "mark_loaded"
              /\ st'[s].pc = "stc_select"
              /\ InRange(shipment_header, shipment_loaded, st[s].trip_id) )
            => LoadedPkgs(shipment_loaded, st[s].trip_id)
                 = 1 .. shipment_header[st[s].trip_id].pkgs_total
       /\ \A t \in DOMAIN shipment_header : \A p \in PkgNos :
            ( /\ rets'[<<t, p>>] = Append(rets[<<t, p>>], Loaded)
              /\ LoadedPkgs(shipment_loaded', t) = 1 .. shipment_header'[t].pkgs_total )
            => /\ shipment_header'[t].closed = 1
               /\ shipment_header'[t].en_route = 1
               /\ shipment_header'[t].pkgs_loaded = shipment_header'[t].pkgs_total
      ]_vars

\* C4 witness: a trip of two packages, loaded in the order 2, 1, is closed
\* (the closing scan was not the highest number: TRIP_COMPLETED_LATE).
C4_Witness ==
    \E t \in DOMAIN shipment_header :
        /\ shipment_header[t].pkgs_total = 2
        /\ LoadedPkgs(shipment_loaded, t) = {1, 2}
        /\ rets[<<t, 1>>] = <<Loaded>> /\ rets[<<t, 2>>] = <<Loaded>>
        /\ HasAudit(t, "TRIP_COMPLETED_LATE")
        /\ shipment_header[t].closed = 1
        /\ shipment_header[t].en_route = 1
        /\ Quiescent

\* C5 (as claimed): mark_loaded with pkg_no outside 1..pkgs_total never
\* returns Loaded and never creates or sets a loaded row.
C5_Claim ==
    \A t \in DOMAIN shipment_header :
        \A p \in PkgNos :
            (p < 1 \/ p > shipment_header[t].pkgs_total) =>
                /\ p \notin LoadedPkgs(shipment_loaded, t)
                /\ \A k \in DOMAIN rets[<<t, p>>] : rets[<<t, p>>][k] # Loaded

\* C5 (amended): the range check is on_scan's, not mark_loaded's. A scan whose
\* pkg_no is outside 1..pkgs_total of the trip it resolved plays the error
\* sound, shows the warning, does not call mark_loaded and changes no table;
\* and every package mark_loaded writes on behalf of on_scan is within
\* 1..pkgs_total of its trip.
C5_OnScanRejectsOutOfRange ==
    [][/\ \A s \in Stations : \A r \in ScanRoots : \A p \in PkgNos :
            ( /\ OnScan(s, r, p)
              /\ \E i \in DOMAIN shipment_header :
                   /\ trip_by_barkod(shipment_header, r) # <<>>
                   /\ i = trip_by_barkod(shipment_header, r)[1]
                   /\ (p < 1 \/ p > shipment_header[i].pkgs_total) )
            => /\ st'[s].pc = "idle"
               /\ st'[s].signal = "err"
               /\ st'[s].warning = "CapacityExceeded"
               /\ UNCHANGED <<shipment_header, shipment_loaded, user_activity, rets>>
       /\ \A s \in Stations :
            (ml_write(s) /\ st[s].ml_caller = "on_scan")
            => st[s].pkg_no \in 1 .. shipment_header[st[s].trip_id].pkgs_total
      ]_vars

\* C5 witness: a scan was rejected by the range check while a trip has a
\* loaded package.
C5_Witness ==
    /\ \E s \in Stations : st[s].warning = "CapacityExceeded"
    /\ \E t \in DOMAIN shipment_header : shipment_header[t].pkgs_loaded > 0

\* C6: no step lowers a trip's pkgs_total, and upsert_header on an existing
\* (trip_date, order_no) sets it to max(existing, new).
C6_TotalNeverShrinks ==
    [][/\ \A i \in DOMAIN shipment_header :
            /\ i \in DOMAIN shipment_header'
            /\ shipment_header'[i].pkgs_total >= shipment_header[i].pkgs_total
       /\ \A s \in Stations : \A a \in UpsertArgs :
            UpsertHeader(s, a[1], a[2], a[3], a[4]) =>
                \A i \in DOMAIN shipment_header :
                    shipment_header[i].trip_key = a[1] =>
                        shipment_header'[i].pkgs_total =
                            Max2(shipment_header[i].pkgs_total, a[2])
      ]_vars

\* C6 witness: the latest upsert_header of a trip passed less than its total.
C6_Witness ==
    \E i \in DOMAIN shipment_header :
        upsert_arg[i] < shipment_header[i].pkgs_total

\* C7: upsert_header on an existing (trip_date, order_no) leaves closed = 0,
\* whatever it was and whatever pkgs_total is passed.
C7_UpsertReopens ==
    [][\A s \in Stations : \A a \in UpsertArgs :
            UpsertHeader(s, a[1], a[2], a[3], a[4]) =>
                \A i \in DOMAIN shipment_header :
                    shipment_header[i].trip_key = a[1] =>
                        shipment_header'[i].closed = 0
      ]_vars

\* C7 witness: a trip that was closed (en_route and loaded_at are set) is open
\* again although the latest upsert_header did not raise its total.
C7_Witness ==
    \E i \in DOMAIN shipment_header :
        /\ shipment_header[i].closed = 0
        /\ shipment_header[i].en_route = 1
        /\ shipment_header[i].loaded_at > 0
        /\ upsert_arg[i] < shipment_header[i].pkgs_total

\* Trips with the invoice root that are not closed and have packages left.
OpenTrips(inv_root) ==
    { i \in DOMAIN shipment_header :
        /\ shipment_header[i].invoice_root = inv_root
        /\ shipment_header[i].closed = 0
        /\ shipment_header[i].pkgs_loaded < shipment_header[i].pkgs_total }

\* C8: trip_by_barkod returns the lowest id among the trips with the invoice
\* root that are not closed and have pkgs_loaded < pkgs_total, and None exactly
\* when there is none; on_scan goes on with that trip, or reports NotFound.
C8_ResolveLowestOpen ==
    /\ [](\A r \in ScanRoots :
            IF OpenTrips(r) = {}
            THEN trip_by_barkod(shipment_header, r) = <<>>
            ELSE trip_by_barkod(shipment_header, r) =
                   <<Min(OpenTrips(r)), shipment_header[Min(OpenTrips(r))].pkgs_total>>)
    /\ [][\A s \in Stations : \A r \in ScanRoots : \A p \in PkgNos :
            OnScan(s, r, p) =>
                /\ (OpenTrips(r) = {}) <=> (st'[s].warning = "NotFound")
                /\ st'[s].pc = "ml_select" => st'[s].trip_id = Min(OpenTrips(r))
      ]_vars

\* C8 witness: the lowest-id trip of the invoice root is full, and a scan
\* resolved to the next trip.
C8_Witness ==
    /\ Len(shipment_header) = 2
    /\ shipment_header[1].invoice_root = shipment_header[2].invoice_root
    /\ shipment_header[1].pkgs_loaded = shipment_header[1].pkgs_total
    /\ \E s \in Stations : st[s].pc = "ml_select" /\ st[s].trip_id = 2

C10_Claim ==
    \A i \in DOMAIN shipment_header :
        shipment_header[i].en_route = shipment_header[i].closed

\* A trip is FULL: not closed although every package of its total is loaded.
FULL(t) ==
    /\ t \in DOMAIN shipment_header
    /\ shipment_header[t].closed = 0
    /\ shipment_header[t].pkgs_loaded = shipment_header[t].pkgs_total

\* C11 (as claimed): a trip that is FULL is closed later on, in every run in
\* which the stations keep scanning and nobody closes by hand.
C11_Claim ==
    \A t \in TripIds :
        FULL(t) ~> (t \in DOMAIN shipment_header /\ shipment_header[t].closed = 1)

\* Ids of the backorders rows of a key, open or fulfilled.
RowsOf(k) ==
    { i \in DOMAIN backorders :
        backorders[i].order_no = k[1] /\ backorders[i].item_code = k[2] }

\* Ids of the shipment_lines rows of a key.
LinesOf(k) ==
    { i \in DOMAIN shipment_lines :
        shipment_lines[i].invoice_no = k[1] /\ shipment_lines[i].item_code = k[2] }

C14_Claim ==
    \A k \in LedgerKeys : Cardinality(sql_sel(backorders, k[1], k[2])) <= 1

\* C15 (as claimed): no step changes the fulfilled flag or the fulfilled_at
\* of a row that is fulfilled.
C15_Claim ==
    [][\A i \in DOMAIN backorders :
          backorders[i].fulfilled = 1 =>
              /\ backorders'[i].fulfilled = 1
              /\ backorders'[i].fulfilled_at = backorders[i].fulfilled_at]_vars

\* C16 (as claimed): no step lowers the qty_missing of an open backorders row
\* or the qty_shipped of a shipment_lines row, whatever the arguments.
C16_Claim ==
    [][/\ \A i \in DOMAIN backorders :
            backorders[i].fulfilled = 0 =>
                backorders'[i].qty_missing >= backorders[i].qty_missing
       /\ \A i \in DOMAIN shipment_lines :
            shipment_lines'[i].qty_shipped >= shipment_lines[i].qty_shipped]_vars

\* C17: a key that has been passed to add_shipment has exactly one
\* shipment_lines row; its qty_shipped is the sum of the qty_delta arguments
\* and its invoiced_qty is the one of the first call, which inserted the row.
C17_OneLinePerKey ==
    \A k \in LedgerKeys :
        ship_args[k].n > 0 =>
            /\ Cardinality(LinesOf(k)) = 1
            /\ \A i \in LinesOf(k) :
                 /\ shipment_lines[i].qty_shipped = ship_args[k].sum
                 /\ shipment_lines[i].invoiced_qty = ship_args[k].first

\* C17 witness: three add_shipment calls for one key with qty_delta 2, 3 and
\* 3; the row was last updated by the third and holds the sum.
C17_Witness ==
    \E k \in LedgerKeys :
        /\ ship_args[k].n = 3
        /\ \E i \in LinesOf(k) : /\ shipment_lines[i].qty_shipped = 8
                                  /\ shipment_lines[i].last_update = 3

\* C20 (as claimed): an insert_backorder call with a negative qty_missing
\* leaves the backorders table as it was.
C20_Claim ==
    [][\A s \in Stations :
          (ib_write(s) /\ bk[s].qty_missing < 0) => UNCHANGED backorders]_vars

\* The pick queue rows of (order_id, item_code).
QueueRows(order_id, item_code) ==
    { r \in WMS_PICKQUEUE : r.order_id = order_id /\ r.item_code = item_code }

C18_Claim ==
    [][\A s \in Stations :
          (co_ship(s) /\ next_shipment(scn[s].order_lines, scn[s].idx) = 0) =>
              \A j \in incomplete_items(scn[s].order_lines) :
                  \E b \in sql_sel(backorders', scn[s].current_order,
                                   scn[s].order_lines[j].item_code) :
                      backorders'[b].qty_missing >=
                          scn[s].order_lines[j].qty_ordered
                              - scn[s].order_lines[j].qty_scanned]_vars

\* C19 (as claimed): once queue_delete has run for the order, the pick queue
\* holds no row of it.
C19_Claim ==
    deleted => \A o \in OrderIds : queue_fetch(WMS_PICKQUEUE, o) = {}


\* ---------------------------------------------------------------- C22
\* C22: mark_loaded closes a trip automatically only in a state where
\* pkgs_loaded = pkgs_total: the UPDATE of set_trip_closed that mark_loaded
\* issues leaves no trip closed with pkgs_loaded < pkgs_total, whatever
\* upsert_header did between mark_loaded's read of the counters and the UPDATE.
C22_Claim ==
    [][ \A s \in Stations :
          ( /\ st[s].pc = "stc_update"
            /\ st[s].stc_caller = "mark_loaded"
            /\ st'[s].pc = "stc_select" )
          => LET h == shipment_header'[st[s].trip_id]
             IN h.closed = 1 => h.pkgs_loaded = h.pkgs_total ]_vars


\* ---------------------------------------------------------------- C23
IsManualIncomplete(e) == e.action = "TRIP_MANUAL_CLOSED_INCOMPLETE"

\* C23: a manual close of a trip with pkgs_loaded < pkgs_total writes one
\* TRIP_MANUAL_CLOSED_INCOMPLETE row whose details are the trip's counters when
\* it is closed, and a manual close of a trip with pkgs_loaded = pkgs_total
\* writes none.  Stated on the last statement of the close (set_trip_closed's
\* SELECT and INSERT): the rows the whole close has written.
C23_Claim ==
    [][ \A s \in Stations :
          ( /\ st[s].pc = "stc_select"
            /\ st[s].stc_caller = "close_trip"
            /\ st'[s].pc = "ct_refresh" )
          => LET t      == st[s].trip_id
                 h      == shipment_header[t]
                 e      == set_trip_closed_audit(t, h.pkgs_loaded, h.pkgs_total)
                 manual == SelectSeq(Append(st[s].logged, e), IsManualIncomplete)
             IN IF h.pkgs_loaded < h.pkgs_total
                THEN /\ Len(manual) = 1
                     /\ manual[1].details = <<h.pkgs_loaded, h.pkgs_total>>
                ELSE manual = <<>> ]_vars

\* ---------------------------------------------------------------- C24
\* C24: an automatic close by mark_loaded writes exactly one USER_ACTIVITY row,
\* TRIP_AUTO_CLOSED when the completing pkg_no equals pkgs_total and
\* TRIP_COMPLETED_LATE otherwise.  Stated on mark_loaded's last statement: the
\* rows the call has written, its own INSERT included.
C24_Claim ==
    [][ \A s \in Stations :
          ( st[s].pc = "ml_log" /\ st'[s].pc # "ml_log" )
          => LET e   == mark_loaded_audit(st[s].trip_id, st[s].pkg_no,
                                          st[s].pkgs_loaded, st[s].pkgs_total)
                 all == Append(st[s].logged, e)
             IN /\ Len(all) = 1
                /\ all[1].action = IF st[s].pkg_no = st[s].pkgs_total
                                   THEN "TRIP_AUTO_CLOSED"
                                   ELSE "TRIP_COMPLETED_LATE" ]_vars


\* ---------------------------------------------------------------- C28
\* C28: in every reachable state of the loader flow (resolve, range check,
\* mark_loaded) interleaved with upsert_header and set_trip_closed, every trip
\* has 0 <= pkgs_loaded <= pkgs_total.
C28_LoadedWithinTotal ==
    \A t \in DOMAIN shipment_header :
        /\ 0 <= shipment_header[t].pkgs_loaded
        /\ shipment_header[t].pkgs_loaded <= shipment_header[t].pkgs_total

\* A trip loaded to its total and open (reopened by an upsert or by
\* set_trip_closed(False), or not closed yet) while a station is inside
\* mark_loaded for one of its packages.
C28_Witness ==
    \E t \in DOMAIN shipment_header : \E s \in Stations :
        /\ shipment_header[t].pkgs_total >= 2
        /\ shipment_header[t].pkgs_loaded = shipment_header[t].pkgs_total
        /\ shipment_header[t].closed = 0
        /\ st[s].pc = "ml_write"
        /\ st[s].trip_id = t


\* ---------------------------------------------------------------- C30
\* C30: upsert_header on an existing (trip_date, order_no) changes only
\* pkgs_total, closed and, when it was null, invoice_root: no row is added, the
\* trip's pkgs_loaded, en_route, loaded_at, customer fields and an invoice_root
\* already set stay, as do all other trips and every PackageLoad row.
C30_UpsertFrame ==
    [][ \A s \in Stations : \A a \in UpsertArgsAny :
          ( /\ UpsertHeader(s, a[1], a[2], a[3], a[4])
            /\ HeaderIds(shipment_header, a[1]) # {} )
          => /\ Len(shipment_header') = Len(shipment_header)
             /\ Cardinality(HeaderIds(shipment_header', a[1])) = 1
             /\ shipment_loaded' = shipment_loaded
             /\ \A i \in DOMAIN shipment_header :
                  LET o == shipment_header[i]
                      n == shipment_header'[i]
                  IN IF o.trip_key = a[1]
                     THEN /\ n.trip_key = o.trip_key
                          /\ n.pkgs_loaded = o.pkgs_loaded
                          /\ n.en_route = o.en_route
                          /\ n.loaded_at = o.loaded_at
                          /\ n.customer_code = o.customer_code
                          /\ n.invoice_root = IF o.invoice_root = NULL
                                              THEN a[4] ELSE o.invoice_root
                     ELSE n = o ]_vars

\* A trip that was loaded to its total and closed automatically, and then
\* upserted again with a larger total: open, en_route and loaded_at still set,
\* its loaded packages still there.
C30_Witness ==
    \E i \in DOMAIN shipment_header :
        /\ shipment_header[i].closed = 0
        /\ shipment_header[i].en_route = 1
        /\ shipment_header[i].loaded_at > 0
        /\ shipment_header[i].pkgs_loaded > 0
        /\ shipment_header[i].pkgs_loaded < shipment_header[i].pkgs_total
        /\ Cardinality(LoadedPkgs(shipment_loaded, i)) = shipment_header[i].pkgs_loaded


\* ---------------------------------------------------------------- C27
\* C27: insert_backorder never changes a Backorder row with fulfilled = 1:
\* whatever mark_fulfilled did between its SELECT and its write, the write
\* leaves every fulfilled row as it was.
C27_Claim ==
    [][ \A s \in Stations :
          ( bk[s].pc = "ib_write" /\ bk'[s].pc = "idle" )
          => \A i \in DOMAIN backorders :
                backorders[i].fulfilled = 1 => backorders'[i] = backorders[i] ]_vars


\* ---------------------------------------------------------------- C25
\* C25: when the stations scan an order with multiplier 1 and no two scans
\* overlap, the shared counter qty_sent of an (order, item) never exceeds the
\* ordered quantity.
C25_Claim ==
    \A r \in WMS_PICKQUEUE : r.qty_sent <= MaxQty

\* ---------------------------------------------------------------- C29
\* qty_sent of (order_id, item_code), 0 without a row.
QtySent(order_id, item_code) ==
    LET rows == { r \in queue_fetch(WMS_PICKQUEUE, order_id) : r.item_code = item_code }
    IN IF rows = {} THEN 0 ELSE (CHOOSE r \in rows : TRUE).qty_sent

\* C29: when a station completes an order, the qty_delta of each add_shipment
\* call it makes equals the pick queue's qty_sent of (order, item) at that
\* moment.
C29_Claim ==
    [][ \A s \in Stations :
          ( scn[s].pc = "co_ship" /\ shipment_lines' # shipment_lines )
          => LET lines == scn[s].order_lines
                 j     == next_shipment(lines, scn[s].idx)
             IN lines[j].qty_scanned =
                  QtySent(scn[s].current_order_id, lines[j].item_code) ]_vars


\* ---------------------------------------------------------------- C26
\* C26: every scan at a loader station ends with exactly one of the signals
\* success, duplicate, error.  A scan that on_scan itself rejects (malformed
\* text, no open trip, package number outside 1..pkgs_total) gives the error
\* signal and changes no table; a scan that went into mark_loaded ends with
\* the duplicate signal for an already loaded package, no table changed, and
\* with the success signal for a newly loaded one.
C26_Claim ==
    [][ \A s \in Stations :
          /\ \A raw \in RawBarcodes :
               ( OnScanRaw(s, raw) /\ st'[s].pc = "idle" )
               => /\ st'[s].signal = "err"
                  /\ UNCHANGED <<shipment_header, shipment_loaded, user_activity>>
          /\ ( st[s].ml_caller = "on_scan" /\ st[s].pc # "idle" /\ st'[s].pc = "idle" )
               => \/ /\ st'[s].signal = "dupe"
                     /\ st[s].ret = Duplicate
                     /\ UNCHANGED <<shipment_header, shipment_loaded, user_activity>>
                  \/ /\ st'[s].signal = "ok"
                     /\ st[s].ret = Loaded ]_vars


\* ---------------------------------------------------------------- C21
\* The user does not exist or has been deactivated.
MissingOrInactive(username) ==
    IF username \in DOMAIN users THEN ~ users[username].is_active ELSE TRUE

\* C21: login or authenticate for a user that does not exist or has been
\* deactivated yields a failure value (login returns False, authenticate
\* returns None) and leaves an unauthenticated session unauthenticated.
C21_Claim ==
    [][ \A u \in Usernames :
          MissingOrInactive(u) =>
            /\ Login(u) => /\ auth_ret'.outcome = "return"
                           /\ auth_ret'.value = "False"
                           /\ (~ is_authenticated => current_user' = NULL)
            /\ Authenticate(u) => /\ auth_ret'.outcome = "return"
                                  /\ auth_ret'.value = "None"
                                  /\ (~ is_authenticated => current_user' = NULL)
      ]_vars

====
